---- MODULE Spec2Model ----
(***************************************************************************)
(* Model of the Shadowsocks AEAD tunnel of src/aead.go: two tunnels, one   *)
(* at each end of a duplex stream, each with its read and write AEAD       *)
(* instance, its two nonce counters, its one scratch buffer and its        *)
(* leftover cache, which is a slice of that buffer.                        *)
(*                                                                         *)
(* The AEAD transform (crypto/cipher GCM) is modelled symbolically: a      *)
(* sealed byte names the key, the nonce, the position and the plaintext    *)
(* byte it was made from, the tag names the whole plaintext, and an open   *)
(* succeeds exactly on an unaltered output of a seal under the same key    *)
(* and nonce.                                                              *)
(***************************************************************************)
EXTENDS Integers, Sequences, FiniteSets, TLC

VARIABLES
    tun,        \* tun[t]: the aeadTunnel at end t (src/aead.go:72-81)
    wire,       \* wire[t]: bytes in flight towards t, written by the peer of t
    closed,     \* closed[t]: the stream towards t has been closed
    written,    \* history: written[t], the bytes of the pieces t's Writes put on the wire
    delivered,  \* history: delivered[t], the bytes t's Reads returned, in order
    pending,    \* history: pending[t], the decrypted remainder t's Reads still owe
    opens,      \* history: opens[t], one record per Open call of t
    seals,      \* history: seals[t], one record per Seal call of t
    lastR,      \* history: the last Read call
    lastW,      \* history: the last Write call
    failed,     \* history: failed[t], a Read of t has returned an authentication error
    flips,      \* history: the sealed bytes altered in flight
    calls,      \* number of Read and Write calls made so far
    conc,       \* the concurrent run: one Read call and one Write call on one tunnel
    mask,       \* the length decoding run: two length bytes and the size decoded
    shadow,     \* the handshake run: the two ends of a stream, each in Shadow or sending first
    ctr         \* the counter run: a nonce counter and what increment makes of it

vars == <<tun, wire, closed, written, delivered, pending, opens, seals,
          lastR, lastW, failed, flips, calls, conc, mask, shadow, ctr>>

----------------------------------------------------------------------------
(* Bounds.  The program's values are PayloadBits = 14 (MaxPayload 0x3FFF), *)
(* TagSize = 16 and NonceSize = 12 (NewAES256GCM, src/aead.go:184-195).    *)

PayloadBits == 2
TagSize == 1
NonceSize == 1
MaxCalls == 4
MaxFlips == 1

Tunnels == {1, 2}
Peer(t) == 3 - t

\* const MaxPayload = 0x3FFF, all ones in the low PayloadBits bits
MaxPayload == 2^PayloadBits - 1

\* len(c.buffer) = 2 + Overhead + MaxPayload + Overhead
BufferLen == 2 + TagSize + MaxPayload + TagSize

Min(a, b) == IF a < b THEN a ELSE b

----------------------------------------------------------------------------
(* Bytes.  A byte held in a buffer or in flight is a tuple:                *)
(*   <<"p", b>>                  the plain byte b                          *)
(*   <<"c", k, n, i, b, f>>      byte i of the seal of plaintext byte b    *)
(*                               under key k and nonce n                   *)
(*   <<"t", k, n, j, pt, f>>     byte j of the tag of the seal of pt       *)
(* f = 1 marks a sealed byte a bit of which was flipped in flight.         *)

P(b) == <<"p", b>>
Plain(data) == [i \in 1..Len(data) |-> P(data[i])]
Zeros(n) == [i \in 1..n |-> P(0)]

\* buf with src copied over buf[off+1 .. off+Len(src)]
Overwrite(buf, off, src) ==
    [i \in 1..Len(buf) |->
        IF i > off /\ i <= off + Len(src) THEN src[i - off] ELSE buf[i]]

\* the little-endian value of a nonce counter
RECURSIVE NonceValue(_)
NonceValue(b) ==
    IF b = <<>> THEN 0 ELSE b[1] + 256 * NonceValue(Tail(b))

\* a faulty increment: the carry out of the lowest byte is lost
incrementNoCarry(b) ==
    [i \in 1..Len(b) |-> IF i = 1 THEN (b[1] + 1) % 256 ELSE b[i]]

\* increment (src/aead.go:167-174): b[i]++ from the lowest byte, stopping at
\* the first byte that does not wrap to zero
RECURSIVE increment(_)
increment(b) ==
    IF b = <<>> THEN <<>>
    ELSE IF (b[1] + 1) % 256 # 0
         THEN <<b[1] + 1>> \o Tail(b)
         ELSE <<0>> \o increment(Tail(b))

\* x & y on naturals
RECURSIVE BitAnd(_, _)
BitAnd(x, y) ==
    IF x = 0 \/ y = 0 THEN 0
    ELSE (x % 2) * (y % 2) + 2 * BitAnd(x \div 2, y \div 2)

\* a faulty DecodeSize: the mask is left out
DecodeSizeUnmasked(b0, b1) == b0 * 256 + b1

\* size := (int(raw[0])<<8 + int(raw[1])) & MaxPayload   (src/aead.go:117)
DecodeSize(b0, b1) == BitAnd(b0 * 256 + b1, MaxPayload)

\* []byte{byte(size >> 8), byte(size)}   (src/aead.go:156)
EncodeSize(size) == <<(size \div 256) % 256, size % 256>>

\* the value of a byte read as a plain byte
ByteOf(c) == IF c[1] = "p" THEN c[2] ELSE 0

----------------------------------------------------------------------------
(* The AEAD transform                                                      *)

\* cipher.AEAD.Seal(dst, nonce, plaintext, nil): Len(pt) sealed bytes and
\* TagSize tag bytes
AEADSeal(k, n, pt) ==
    [i \in 1..(Len(pt) + TagSize) |->
        IF i <= Len(pt) THEN <<"c", k, n, i, pt[i], 0>>
        ELSE <<"t", k, n, i - Len(pt), pt, 0>>]

\* the plaintext a sealed byte decrypts to
Decrypt(c) == IF c[1] = "c" THEN c[5] ELSE 0

\* a faulty AEADOpen: an input that is a tag and nothing else is refused
AEADOpenNonEmpty(k, n, ct) ==
    LET m == Len(ct) - TagSize
        pt == [i \in 1..(IF m > 0 THEN m ELSE 0) |-> Decrypt(ct[i])]
    IN [ok |-> m > 0 /\ ct = AEADSeal(k, n, pt), pt |-> pt]

\* cipher.AEAD.Open(dst, nonce, ciphertext, nil): fails on an input shorter
\* than the tag and on any input that is not a seal under k and n
AEADOpen(k, n, ct) ==
    LET m == Len(ct) - TagSize
        pt == [i \in 1..(IF m > 0 THEN m ELSE 0) |-> Decrypt(ct[i])]
    IN [ok |-> m >= 0 /\ ct = AEADSeal(k, n, pt), pt |-> pt]

----------------------------------------------------------------------------
(* The tunnel.  c is an aeadTunnel (src/aead.go:72-81); RAEAD and WAEAD    *)
(* hold the subkey of the AEAD instance.  c.cache is a slice of c.buffer:  *)
(* cacheOff and cacheLen say which.                                        *)

\* the tunnel Shadow returns (src/aead.go:61-69)
NewTunnel(rkey, wkey) ==
    [RAEAD |-> rkey, WAEAD |-> wkey,
     RNonce |-> [i \in 1..NonceSize |-> 0],
     WNonce |-> [i \in 1..NonceSize |-> 0],
     buffer |-> Zeros(BufferLen),
     cacheOff |-> 0, cacheLen |-> 0]

\* the bytes of c.cache
CacheOf(c) == SubSeq(c.buffer, c.cacheOff + 1, c.cacheOff + c.cacheLen)

\* a faulty NonceAfterOpen: a failed open advances the counter twice
NonceAfterOpenTwice(nonce, ok) ==
    IF ok THEN increment(nonce) ELSE increment(increment(nonce))

\* a faulty NonceAfterOpen: the counter advances on a successful open only
NonceAfterOpenIfOk(nonce, ok) == IF ok THEN increment(nonce) ELSE nonce

\* defer increment(c.RNonce)   (src/aead.go:84-86): runs whatever Open returns
NonceAfterOpen(nonce, ok) == increment(nonce)

\* c.Open(raw[:0], raw) with raw = c.buffer[0:m]   (src/aead.go:83-88): opens
\* in place; a failed open leaves zeros where the plaintext would be
Open(c, m) ==
    LET ct == SubSeq(c.buffer, 1, m)
        r == AEADOpen(c.RAEAD, c.RNonce, ct)
        out == IF r.ok THEN Plain(r.pt)
               ELSE Zeros(IF m > TagSize THEN m - TagSize ELSE 0)
    IN [c |-> [c EXCEPT !.buffer = Overwrite(@, 0, out),
                        !.RNonce = NonceAfterOpen(@, r.ok)],
        ok |-> r.ok,
        log |-> [nonce |-> c.RNonce, ok |-> r.ok, ct |-> ct]]

\* a faulty Seal: the seal is made under, and advances, the read nonce
SealReadNonce(c, off, pt) ==
    [c |-> [c EXCEPT !.buffer = Overwrite(@, off, AEADSeal(c.WAEAD, c.RNonce, pt)),
                     !.RNonce = increment(@)],
     log |-> [nonce |-> c.RNonce, pt |-> pt]]

\* a faulty Seal: the write nonce is left as it was
SealNoIncrement(c, off, pt) ==
    [c |-> [c EXCEPT !.buffer = Overwrite(@, off, AEADSeal(c.WAEAD, c.WNonce, pt))],
     log |-> [nonce |-> c.WNonce, pt |-> pt]]

\* c.Seal(raw[:off], pt) with raw a prefix of c.buffer   (src/aead.go:90-95)
Seal(c, off, pt) ==
    [c |-> [c EXCEPT !.buffer = Overwrite(@, off, AEADSeal(c.WAEAD, c.WNonce, pt)),
                     !.WNonce = increment(@)],
     log |-> [nonce |-> c.WNonce, pt |-> pt]]

\* a faulty ReadFull: the error of a short read is dropped
ReadFullUnchecked(c, w, cl, need) ==
    IF Len(w) >= need
    THEN [st |-> "ok", w |-> SubSeq(w, need + 1, Len(w)),
          c |-> [c EXCEPT !.buffer = Overwrite(@, 0, SubSeq(w, 1, need))]]
    ELSE IF cl
    THEN [st |-> "ok", w |-> <<>>,
          c |-> [c EXCEPT !.buffer = Overwrite(@, 0, w)]]
    ELSE [st |-> "block", w |-> w, c |-> c]

\* io.ReadFull(c.ReadWriter, c.buffer[0:need]) on the stream holding w: blocks
\* while the open stream holds too few bytes, is short on a closed one
ReadFull(c, w, cl, need) ==
    IF Len(w) >= need
    THEN [st |-> "ok", w |-> SubSeq(w, need + 1, Len(w)),
          c |-> [c EXCEPT !.buffer = Overwrite(@, 0, SubSeq(w, 1, need))]]
    ELSE IF cl
    THEN [st |-> "short", w |-> <<>>,
          c |-> [c EXCEPT !.buffer = Overwrite(@, 0, w)]]
    ELSE [st |-> "block", w |-> w, c |-> c]

\* Read, lines 98-104: what the cache holds is copied out first
ReadCached(c, plen) ==
    LET n == Min(plen, c.cacheLen)
    IN [c |-> [c EXCEPT !.cacheOff = @ + n, !.cacheLen = @ - n],
        out |-> SubSeq(CacheOf(c), 1, n),
        done |-> c.cacheLen > 0 /\ n = plen]

\* Read, lines 127-132: copy(p[n:], raw[:size]) and the remainder kept
ReadDeliver(c, size, room) ==
    LET nn == Min(room, size)
    IN [c |-> IF size - nn > 0
              THEN [c EXCEPT !.cacheOff = nn, !.cacheLen = size - nn]
              ELSE c,
        out |-> SubSeq(c.buffer, 1, nn)]

\* the record of an Open call: the stage of Read it was made at
Stage(stage, log) ==
    [stage |-> stage, nonce |-> log.nonce, ok |-> log.ok, ct |-> log.ct]

ReadResult(c, w, out, err, log, dec) ==
    [c |-> c, w |-> w, out |-> out, err |-> err, opens |-> log, dec |-> dec]

\* aeadTunnel.Read(p) with len(p) = plen   (src/aead.go:97-133)
ReadCall(c, w, cl, plen) ==
    LET s == ReadCached(c, plen)
    IN IF s.done THEN ReadResult(s.c, w, s.out, "nil", <<>>, <<>>)
       ELSE
       LET f1 == ReadFull(s.c, w, cl, 2 + TagSize)
       IN IF f1.st = "block" THEN ReadResult(c, w, <<>>, "block", <<>>, <<>>)
          ELSE IF f1.st = "short"
          THEN ReadResult(f1.c, f1.w, s.out, "transport", <<>>, <<>>)
          ELSE
          LET o1 == Open(f1.c, 2 + TagSize)
          IN IF ~o1.ok
             THEN ReadResult(o1.c, f1.w, s.out, "auth",
                             <<Stage("length", o1.log)>>, <<>>)
             ELSE
             LET size == DecodeSize(ByteOf(o1.c.buffer[1]), ByteOf(o1.c.buffer[2]))
                 f2 == ReadFull(o1.c, f1.w, cl, size + TagSize)
             IN IF f2.st = "block"
                THEN ReadResult(c, w, <<>>, "block", <<>>, <<>>)
                ELSE IF f2.st = "short"
                THEN ReadResult(f2.c, f2.w, s.out, "transport",
                                <<Stage("length", o1.log)>>, <<>>)
                ELSE
                LET o2 == Open(f2.c, size + TagSize)
                IN IF ~o2.ok
                   THEN ReadResult(o2.c, f2.w, s.out, "auth",
                                   <<Stage("length", o1.log), Stage("payload", o2.log)>>, <<>>)
                   ELSE
                   LET d == ReadDeliver(o2.c, size, plen - Len(s.out))
                   IN ReadResult(d.c, f2.w, s.out \o d.out, "nil",
                                 <<Stage("length", o1.log), Stage("payload", o2.log)>>,
                                 <<SubSeq(o2.c.buffer, 1, size)>>)

\* a faulty write: the payload is sealed before the length
writePayloadFirst(c, p, sent) ==
    LET size == Len(p)
        s2 == Seal(c, 2 + TagSize, p)
        s1 == Seal(s2.c, 0, EncodeSize(size))
    IN [c |-> s1.c,
        n |-> IF sent THEN size ELSE 0,
        err |-> IF sent THEN "nil" ELSE "transport",
        raw |-> SubSeq(s1.c.buffer, 1, 2 + TagSize + size + TagSize),
        seals |-> <<s2.log, s1.log>>]

\* a faulty write: the size of a piece the stream refused is returned too
writeCountsRefused(c, p, sent) ==
    LET s1 == Seal(c, 0, EncodeSize(Len(p)))
        s2 == Seal(s1.c, 2 + TagSize, p)
    IN [c |-> s2.c,
        n |-> Len(p),
        err |-> IF sent THEN "nil" ELSE "transport",
        raw |-> SubSeq(s2.c.buffer, 1, 2 + TagSize + Len(p) + TagSize),
        seals |-> <<s1.log, s2.log>>]

\* aeadTunnel.write(p)   (src/aead.go:150-163); sent says whether the stream
\* accepts the write
write(c, p, sent) ==
    IF Len(p) > MaxPayload
    THEN [c |-> c, n |-> 0, err |-> "limit", raw |-> <<>>, seals |-> <<>>]
    ELSE
    LET size == Len(p)
        s1 == Seal(c, 0, EncodeSize(size))
        s2 == Seal(s1.c, 2 + TagSize, p)
    IN [c |-> s2.c,
        n |-> IF sent THEN size ELSE 0,
        err |-> IF sent THEN "nil" ELSE "transport",
        raw |-> SubSeq(s2.c.buffer, 1, 2 + TagSize + size + TagSize),
        seals |-> <<s1.log, s2.log>>]

\* a faulty MorePieces: the loop also runs when i*MaxPayload = size
MorePiecesInclusive(i, size) == i * MaxPayload <= size

\* the loop condition of Write: i*MaxPayload < size   (src/aead.go:137)
MorePieces(i, size) == i * MaxPayload < size

\* the loop of Write (src/aead.go:137-147) from piece i on; accept is the
\* number of writes the stream accepts before it fails
RECURSIVE WriteLoop(_, _, _, _, _)
WriteLoop(c, p, i, accept, acc) ==
    IF ~MorePieces(i, Len(p))
    THEN [c |-> c, n |-> acc.n, err |-> "nil", frames |-> acc.frames,
          seals |-> acc.seals, tried |-> i]
    ELSE
    LET end == Min((i + 1) * MaxPayload, Len(p))
        r == write(c, SubSeq(p, i * MaxPayload + 1, end), i < accept)
        acc2 == [n |-> acc.n + r.n,
                 frames |-> IF r.err = "nil" THEN Append(acc.frames, r.raw)
                            ELSE acc.frames,
                 seals |-> acc.seals \o r.seals]
    IN IF r.err # "nil"
       THEN [c |-> r.c, n |-> acc2.n, err |-> r.err, frames |-> acc2.frames,
             seals |-> acc2.seals, tried |-> i + 1]
       ELSE WriteLoop(r.c, p, i + 1, accept, acc2)

\* aeadTunnel.Write(p)   (src/aead.go:134-149)
WriteCall(c, p, accept) ==
    WriteLoop(c, p, 0, accept, [n |-> 0, frames |-> <<>>, seals |-> <<>>])

RECURSIVE Concat(_)
Concat(ss) == IF ss = <<>> THEN <<>> ELSE Head(ss) \o Concat(Tail(ss))

----------------------------------------------------------------------------
(* Inputs                                                                  *)

\* End 1 sends; end 2 receives and replies.
Writers == {1, 2}
Readers == {2}
\* the receiving end
Conc == CHOOSE t \in Readers : TRUE

\* the longest Write: three pieces
MaxLen == 2 * MaxPayload + 1
\* the bytes written: 0, 2, 3, 4, ...
Source == [i \in 1..MaxLen |-> IF i = 1 THEN 0 ELSE i]
\* the data of a Write between the two ends: no piece, one piece, two pieces
WriteLens == {0, 2, MaxPayload + 1}
Datas == {SubSeq(Source, 1, L) : L \in WriteLens}
ReadSizes == {0, 1, MaxPayload + 1}
\* the stream accepts every write of a call
Accepts == {MaxLen}

----------------------------------------------------------------------------
(* The sequential specification: every Read and Write call runs alone, on  *)
(* a stream that delivers what was written until it is closed.             *)

NoCall == [t |-> 0, seq |-> 0]

InitTunnels ==
    /\ tun = [t \in Tunnels |-> NewTunnel(Peer(t), t)]
    /\ wire = [t \in Tunnels |-> <<>>]
    /\ closed = [t \in Tunnels |-> FALSE]
    /\ written = [t \in Tunnels |-> <<>>]
    /\ delivered = [t \in Tunnels |-> <<>>]
    /\ pending = [t \in Tunnels |-> <<>>]
    /\ opens = [t \in Tunnels |-> <<>>]
    /\ seals = [t \in Tunnels |-> <<>>]
    /\ lastR = NoCall
    /\ lastW = NoCall
    /\ failed = [t \in Tunnels |-> FALSE]
    /\ flips = {}
    /\ calls = 0

Init ==
    /\ InitTunnels
    /\ conc = [pc |-> "off"]
    /\ mask = [pc |-> "off"]
    /\ shadow = [pc |-> "off"]
    /\ ctr = [pc |-> "off"]

\* Read on tunnel t into a slice of plen bytes
Read(t, plen) ==
    LET r == ReadCall(tun[t], wire[t], closed[t], plen)
        n == Len(r.out)
    IN /\ r.err # "block"
       /\ calls' = calls + 1
       /\ tun' = [tun EXCEPT ![t] = r.c]
       /\ wire' = [wire EXCEPT ![t] = r.w]
       /\ delivered' = [delivered EXCEPT ![t] = @ \o r.out]
       /\ opens' = [opens EXCEPT ![t] = @ \o r.opens]
       /\ failed' = [failed EXCEPT ![t] = @ \/ r.err = "auth"]
       /\ pending' = [pending EXCEPT ![t] =
              IF r.dec = <<>>
              THEN SubSeq(@, Min(n, Len(@)) + 1, Len(@))
              ELSE SubSeq(r.dec[1], n - Len(@) + 1, Len(r.dec[1]))]
       /\ lastR' = [t |-> t, seq |-> calls + 1, plen |-> plen, n |-> n,
                    err |-> r.err, out |-> r.out, owed |-> pending[t],
                    dec |-> r.dec, read |-> Len(wire[t]) - Len(r.w),
                    broken |-> failed[t]]
       /\ UNCHANGED <<closed, written, seals, lastW, flips, conc, mask, shadow, ctr>>

\* Write of data on tunnel t; the stream accepts the first accept writes
Write(t, data, accept) ==
    LET acc == IF closed[Peer(t)] THEN 0 ELSE accept
        r == WriteCall(tun[t], data, acc)
    IN /\ calls' = calls + 1
       /\ tun' = [tun EXCEPT ![t] = r.c]
       /\ wire' = [wire EXCEPT ![Peer(t)] = @ \o Concat(r.frames)]
       /\ closed' = [closed EXCEPT ![Peer(t)] = @ \/ r.err = "transport"]
       /\ written' = [written EXCEPT ![t] = @ \o SubSeq(data, 1, r.n)]
       /\ seals' = [seals EXCEPT ![t] = @ \o r.seals]
       /\ lastW' = [t |-> t, seq |-> calls + 1, data |-> data, accept |-> acc,
                    n |-> r.n, err |-> r.err, frames |-> r.frames,
                    tried |-> r.tried]
       /\ UNCHANGED <<delivered, pending, opens, lastR, failed, flips, conc, mask, shadow, ctr>>

\* a bit of byte i in flight towards t is flipped
Tamper(t, i) ==
    /\ i \in 1..Len(wire[t])
    /\ wire[t][i][6] = 0
    /\ wire' = [wire EXCEPT ![t][i][6] = 1]
    /\ flips' = flips \cup {<<wire[t][i][2], wire[t][i][3]>>}
    /\ UNCHANGED <<tun, closed, written, delivered, pending, opens, seals,
                   lastR, lastW, failed, calls, conc, mask, shadow, ctr>>

\* the stream towards t is closed
Close(t) ==
    /\ ~closed[t]
    /\ closed' = [closed EXCEPT ![t] = TRUE]
    /\ UNCHANGED <<tun, wire, written, delivered, pending, opens, seals,
                   lastR, lastW, failed, flips, calls, conc, mask, shadow, ctr>>

Next ==
    \/ \E t \in Readers, plen \in ReadSizes :
           calls < MaxCalls /\ Read(t, plen)
    \/ \E t \in Writers, data \in Datas, accept \in Accepts :
           calls < MaxCalls /\ Write(t, data, accept)
    \/ \E t \in Readers : Close(t)

Spec == Init /\ [][Next]_vars

----------------------------------------------------------------------------
(* The wire specification: end 1 sends and end 2 receives, on a stream an  *)
(* adversary alters and closes.  A byte is altered when the next Read can   *)
(* reach it, which is no later than any Read that reads it: a Read takes at *)
(* most BufferLen bytes from the stream.  The adversary alters one byte at  *)
(* a time: the next alteration waits until the altered byte has left the   *)
(* stream.                                                                  *)

MaxWireCalls == 3

\* an altered byte is on its way to t
InFlight(t) == \E j \in 1..Len(wire[t]) : wire[t][j][6] = 1

NextWire ==
    \/ \E t \in Readers, plen \in ReadSizes :
           calls < MaxWireCalls /\ Read(t, plen)
    \/ \E data \in Datas, accept \in Accepts :
           calls < MaxWireCalls /\ Write(Peer(Conc), data, accept)
    \/ \E t \in Readers : \E i \in 1..Min(Len(wire[t]), BufferLen) :
           Cardinality(flips) < MaxFlips /\ ~InFlight(t) /\ Tamper(t, i)
    \/ \E t \in Readers : Close(t)

SpecWire == Init /\ [][NextWire]_vars

----------------------------------------------------------------------------
(* The desynchronised specification: the wire specification with a caller  *)
(* who reads on after an error, one more alteration, and writes of two     *)
(* bytes, whose sealed payload is as long as a sealed length.              *)

MaxDesyncCalls == 5

DesyncDatas == {SubSeq(Source, 1, 2)}
DesyncSizes == {1, MaxPayload + 1}

NextDesync ==
    \/ \E t \in Readers, plen \in DesyncSizes :
           calls < MaxDesyncCalls /\ Read(t, plen)
    \/ \E data \in DesyncDatas, accept \in Accepts :
           calls < MaxDesyncCalls /\ Write(Peer(Conc), data, accept)
    \/ \E t \in Readers : \E i \in 1..Min(Len(wire[t]), BufferLen) :
           Cardinality(flips) < MaxFlips + 1 /\ ~InFlight(t) /\ Tamper(t, i)
    \/ \E t \in Readers : Close(t)

SpecDesync == Init /\ [][NextDesync]_vars

----------------------------------------------------------------------------
(* The concurrent specification: on tunnel Conc, whose peer has written    *)
(* sent, one Read call and one Write call run at the same time, one        *)
(* library call or buffer access of either per step.  Both work on the one *)
(* c.buffer.                                                               *)

\* the values a byte can be read as: a sealed byte can be any value, of which
\* Read uses the low PayloadBits bits
ByteValues(c) == IF c[1] = "p" THEN {c[2]} ELSE 0..MaxPayload

InitConc ==
    /\ \E sent \in Datas, plen \in ReadSizes, data \in Datas :
         LET pw == WriteCall(NewTunnel(Conc, Peer(Conc)), sent, MaxLen)
             w == Concat(pw.frames)
             c == NewTunnel(Peer(Conc), Conc)
             er == ReadCall(c, w, FALSE, plen)
             ew == WriteCall(c, data, MaxLen)
         IN /\ tun = [t \in Tunnels |-> IF t = Conc THEN c ELSE pw.c]
            /\ wire = [t \in Tunnels |-> IF t = Conc THEN w ELSE <<>>]
            /\ written = [t \in Tunnels |-> IF t = Conc THEN <<>> ELSE sent]
            /\ conc = [pc |-> "on", rpc |-> "cache", wpc |-> "loop",
                       plen |-> plen, rout |-> <<>>, rerr |-> "nil", size |-> 0,
                       data |-> data, i |-> 0, wn |-> 0, werr |-> "nil",
                       expOut |-> er.out, expErr |-> er.err,
                       expWire |-> Concat(ew.frames)]
    /\ closed = [t \in Tunnels |-> FALSE]
    /\ delivered = [t \in Tunnels |-> <<>>]
    /\ pending = [t \in Tunnels |-> <<>>]
    /\ opens = [t \in Tunnels |-> <<>>]
    /\ seals = [t \in Tunnels |-> <<>>]
    /\ lastR = NoCall
    /\ lastW = NoCall
    /\ failed = [t \in Tunnels |-> FALSE]
    /\ flips = {}
    /\ calls = 0
    /\ mask = [pc |-> "off"]
    /\ shadow = [pc |-> "off"]
    /\ ctr = [pc |-> "off"]

ConcFrame ==
    UNCHANGED <<closed, written, delivered, pending, opens, seals, lastR, lastW,
                failed, flips, calls, mask, shadow, ctr>>

\* Read, lines 98-104
RCache ==
    LET s == ReadCached(tun[Conc], conc.plen)
    IN /\ conc.pc = "on" /\ conc.rpc = "cache"
       /\ tun' = [tun EXCEPT ![Conc] = s.c]
       /\ conc' = [conc EXCEPT !.rout = s.out,
                               !.rpc = IF s.done THEN "done" ELSE "rf1"]
       /\ UNCHANGED wire /\ ConcFrame

\* Read, lines 106-110 and 118-122: io.ReadFull into the head of c.buffer
RReadFull(at, need, then) ==
    LET f == ReadFull(tun[Conc], wire[Conc], closed[Conc], need)
    IN /\ conc.pc = "on" /\ conc.rpc = at
       /\ f.st # "block"
       /\ tun' = [tun EXCEPT ![Conc] = f.c]
       /\ wire' = [wire EXCEPT ![Conc] = f.w]
       /\ conc' = IF f.st = "ok" THEN [conc EXCEPT !.rpc = then]
                  ELSE [conc EXCEPT !.rpc = "done", !.rerr = "transport"]
       /\ ConcFrame

\* Read, lines 112-115 and 123-126: c.Open in place
ROpen(at, m, then) ==
    LET o == Open(tun[Conc], m)
    IN /\ conc.pc = "on" /\ conc.rpc = at
       /\ tun' = [tun EXCEPT ![Conc] = o.c]
       /\ conc' = IF o.ok THEN [conc EXCEPT !.rpc = then]
                  ELSE [conc EXCEPT !.rpc = "done", !.rerr = "auth"]
       /\ UNCHANGED wire /\ ConcFrame

\* Read, line 117: the size is read from raw[0] and raw[1]
RSize ==
    /\ conc.pc = "on" /\ conc.rpc = "size"
    /\ \E b0 \in ByteValues(tun[Conc].buffer[1]),
          b1 \in ByteValues(tun[Conc].buffer[2]) :
         conc' = [conc EXCEPT !.size = DecodeSize(b0, b1), !.rpc = "rf2"]
    /\ UNCHANGED <<tun, wire>> /\ ConcFrame

\* Read, lines 127-132
RCopy ==
    LET d == ReadDeliver(tun[Conc], conc.size, conc.plen - Len(conc.rout))
    IN /\ conc.pc = "on" /\ conc.rpc = "copy"
       /\ tun' = [tun EXCEPT ![Conc] = d.c]
       /\ conc' = [conc EXCEPT !.rout = @ \o d.out, !.rpc = "done"]
       /\ UNCHANGED wire /\ ConcFrame

\* the piece of data the loop of Write is at
Piece(data, i) ==
    SubSeq(data, i * MaxPayload + 1, Min((i + 1) * MaxPayload, Len(data)))

\* Write, line 137: the loop condition
WLoop ==
    /\ conc.pc = "on" /\ conc.wpc = "loop"
    /\ conc' = [conc EXCEPT !.wpc =
           IF MorePieces(conc.i, Len(conc.data)) THEN "seal1" ELSE "done"]
    /\ UNCHANGED <<tun, wire>> /\ ConcFrame

\* write, line 156: the length is sealed into the head of c.buffer
WSealLen ==
    LET p == Piece(conc.data, conc.i)
    IN /\ conc.pc = "on" /\ conc.wpc = "seal1"
       /\ tun' = [tun EXCEPT ![Conc] = Seal(@, 0, EncodeSize(Len(p))).c]
       /\ conc' = [conc EXCEPT !.wpc = "seal2"]
       /\ UNCHANGED wire /\ ConcFrame

\* write, line 157: the payload is sealed behind it
WSealPayload ==
    LET p == Piece(conc.data, conc.i)
    IN /\ conc.pc = "on" /\ conc.wpc = "seal2"
       /\ tun' = [tun EXCEPT ![Conc] = Seal(@, 2 + TagSize, p).c]
       /\ conc' = [conc EXCEPT !.wpc = "send"]
       /\ UNCHANGED wire /\ ConcFrame

\* write, line 158: what c.buffer holds now goes to the stream
WSend ==
    LET p == Piece(conc.data, conc.i)
        raw == SubSeq(tun[Conc].buffer, 1, 2 + TagSize + Len(p) + TagSize)
    IN /\ conc.pc = "on" /\ conc.wpc = "send"
       /\ wire' = [wire EXCEPT ![Peer(Conc)] = @ \o raw]
       /\ conc' = [conc EXCEPT !.wn = @ + Len(p), !.i = @ + 1, !.wpc = "loop"]
       /\ UNCHANGED tun /\ ConcFrame

NextConc ==
    \/ RCache
    \/ RReadFull("rf1", 2 + TagSize, "open1")
    \/ ROpen("open1", 2 + TagSize, "size")
    \/ RSize
    \/ RReadFull("rf2", conc.size + TagSize, "open2")
    \/ ROpen("open2", conc.size + TagSize, "copy")
    \/ RCopy
    \/ WLoop
    \/ WSealLen
    \/ WSealPayload
    \/ WSend

SpecConc == InitConc /\ [][NextConc]_vars

----------------------------------------------------------------------------
(* The write specification: one end makes Write calls of every length up   *)
(* to three pieces, on a stream that accepts them or fails at some piece.   *)

MaxWrites == 2
WriteDatas == {SubSeq(Source, 1, L) : L \in 0..MaxLen}
StreamAccepts == {0, 1, 2, MaxLen}

NextWrite ==
    \E data \in WriteDatas, accept \in StreamAccepts :
        calls < MaxWrites /\ Write(1, data, accept)

SpecWrite == Init /\ [][NextWrite]_vars

----------------------------------------------------------------------------
(* The length decoding specification: Read decodes the size of a chunk     *)
(* from every pair of decrypted length bytes.                              *)

InitMask ==
    /\ InitTunnels
    /\ conc = [pc |-> "off"]
    /\ \E b0 \in 0..255, b1 \in 0..255 :
         mask = [pc |-> "raw", b0 |-> b0, b1 |-> b1, size |-> 0, need |-> 0]
    /\ shadow = [pc |-> "off"]
    /\ ctr = [pc |-> "off"]

\* Read, lines 117-118: the size and the slice of c.buffer the payload goes to
Decode ==
    /\ mask.pc = "raw"
    /\ mask' = [mask EXCEPT !.pc = "sized",
                            !.size = DecodeSize(mask.b0, mask.b1),
                            !.need = DecodeSize(mask.b0, mask.b1) + TagSize]
    /\ UNCHANGED <<tun, wire, closed, written, delivered, pending, opens, seals,
                   lastR, lastW, failed, flips, calls, conc,
                   shadow, ctr>>

NextMask == Decode

SpecMask == InitMask /\ [][NextMask]_vars

----------------------------------------------------------------------------
(* The handshake specification: the two ends of one duplex stream.  An end *)
(* runs Shadow (src/aead.go:25-70), one step of it at a time, or is a peer *)
(* that sends its salt first, byte by byte; the stream may be closed at    *)
(* any time.  SaltSize is 32 in the program (src/aead.go:189).             *)

SaltSize == 2

\* the salts the random source and the peers produce
SaltBytes == {1, 2}
Salts == [1..SaltSize -> SaltBytes]

\* hkdfSHA1(p.key, salt, "ss-subkey", key): the subkey of a salt
Subkey(salt) == <<"hkdf", salt>>

\* the steps of Shadow in the order of the code, and the error of each
ShadowSteps == <<"read", "cipherR", "aeadR", "rand", "write", "cipherW", "aeadW">>
ShadowErr(step) ==
    IF step \in {"read", "write"} THEN "transport" ELSE step

\* a faulty StepAfter: the local salt is made and written before the read
\* AEAD is built
StepAfterWriteEarly(step) ==
    CASE step = "read" -> "rand"
      [] step = "rand" -> "write"
      [] step = "write" -> "cipherR"
      [] step = "cipherR" -> "aeadR"
      [] step = "aeadR" -> "cipherW"
      [] step = "cipherW" -> "aeadW"
      [] OTHER -> "ret"

\* the step that follows a step of Shadow that met no error
StepAfter(step) ==
    CASE step = "read" -> "cipherR"
      [] step = "cipherR" -> "aeadR"
      [] step = "aeadR" -> "rand"
      [] step = "rand" -> "write"
      [] step = "write" -> "cipherW"
      [] step = "cipherW" -> "aeadW"
      [] OTHER -> "ret"

\* a faulty OnError: the error of a step is dropped
OnErrorIgnored(h, step, ok) ==
    [h EXCEPT !.pc = StepAfter(step)]

\* if err != nil { return nil, err } after a step of Shadow
OnError(h, step, ok) ==
    IF ok THEN [h EXCEPT !.pc = StepAfter(step)]
    ELSE [h EXCEPT !.pc = "ret", !.err = ShadowErr(step), !.ret = <<>>]

\* a faulty SaltRead: a read of too few bytes counts as a read of the salt
SaltReadShort(w, cl) ==
    [st |-> "ok", salt |-> [i \in 1..SaltSize |-> IF i <= Len(w) THEN w[i] ELSE 0],
     w |-> SubSeq(w, SaltSize + 1, Len(w))]

\* io.ReadFull(rw, salt) on the stream holding w   (src/aead.go:27-31): blocks
\* while the open stream holds too few bytes, is short on a closed one
SaltRead(w, cl) ==
    IF Len(w) >= SaltSize
    THEN [st |-> "ok", salt |-> SubSeq(w, 1, SaltSize),
          w |-> SubSeq(w, SaltSize + 1, Len(w))]
    ELSE IF cl THEN [st |-> "short", salt |-> w, w |-> <<>>]
    ELSE [st |-> "block", salt |-> <<>>, w |-> w]

\* an end before its first step; ret holds the tunnel Shadow returns, if any
NewEnd(kind, salt) ==
    [kind |-> kind, pc |-> IF kind = "shadow" THEN "read" ELSE "send",
     salt |-> salt, rkey |-> <<>>, wkey |-> <<>>, err |-> "nil", ret |-> <<>>,
     log |-> <<>>, wcalls |-> <<>>]

Kinds == {"shadow", "first"}

InitShadow ==
    /\ InitTunnels
    /\ conc = [pc |-> "off"]
    /\ mask = [pc |-> "off"]
    /\ ctr = [pc |-> "off"]
    /\ \E k1 \in Kinds, k2 \in Kinds, s1 \in Salts, s2 \in Salts :
         shadow = [pc |-> "on", cl |-> FALSE,
                   in |-> <<<<>>, <<>>>>, sent |-> <<<<>>, <<>>>>,
                   end |-> <<NewEnd(k1, IF k1 = "first" THEN s1 ELSE <<>>),
                             NewEnd(k2, IF k2 = "first" THEN s2 ELSE <<>>)>>]

ShadowFrame ==
    UNCHANGED <<tun, wire, closed, written, delivered, pending, opens, seals,
                lastR, lastW, failed, flips, calls, conc, mask, ctr>>

\* the record of a step of end e: its name and whether it met no error
Logged(h, step, ok) == [h EXCEPT !.log = Append(@, <<step, ok>>)]

\* Shadow, lines 27-31: the peer salt is read
ReadSalt(e) ==
    LET h == shadow.end[e]
        r == SaltRead(shadow.in[e], shadow.cl)
    IN /\ shadow.pc = "on" /\ h.kind = "shadow" /\ h.pc = "read"
       /\ r.st # "block"
       /\ shadow' = [shadow EXCEPT
              !.in[e] = r.w,
              !.end[e] = OnError(Logged([h EXCEPT !.salt = r.salt],
                                        "read", Len(shadow.in[e]) >= SaltSize),
                                 "read", r.st = "ok")]
       /\ ShadowFrame

\* Shadow, lines 33-42 and 52-60: a cipher or an AEAD is built from the
\* subkey of the salt at hand; ok says whether the constructor succeeds
Build(e, step, ok) ==
    LET h == shadow.end[e]
        k == Subkey(h.salt)
        b == IF step = "aeadR" /\ ok THEN [h EXCEPT !.rkey = k]
             ELSE IF step = "aeadW" /\ ok THEN [h EXCEPT !.wkey = k]
             ELSE h
        g == OnError(Logged(b, step, ok), step, ok)
    IN /\ shadow.pc = "on" /\ h.kind = "shadow" /\ h.pc = step
       /\ step \in {"cipherR", "aeadR", "cipherW", "aeadW"}
       /\ shadow' = [shadow EXCEPT !.end[e] =
              IF g.pc = "ret" /\ g.err = "nil"
              THEN [g EXCEPT !.ret = <<NewTunnel(g.rkey, g.wkey)>>]
              ELSE g]
       /\ ShadowFrame

\* Shadow, lines 44-46: the local salt is drawn into the salt buffer
RandSalt(e, s, ok) ==
    LET h == shadow.end[e]
    IN /\ shadow.pc = "on" /\ h.kind = "shadow" /\ h.pc = "rand"
       /\ shadow' = [shadow EXCEPT !.end[e] =
              OnError(Logged(IF ok THEN [h EXCEPT !.salt = s] ELSE h, "rand", ok),
                      "rand", ok)]
       /\ ShadowFrame

\* Shadow, lines 47-50: rw.Write(salt); a stream that fails has taken the
\* first part bytes of the salt
WriteSalt(e, ok, part) ==
    LET h == shadow.end[e]
        good == ok /\ ~shadow.cl
        out == IF good THEN h.salt ELSE SubSeq(h.salt, 1, Min(part, Len(h.salt)))
    IN /\ shadow.pc = "on" /\ h.kind = "shadow" /\ h.pc = "write"
       /\ shadow' = [shadow EXCEPT
              !.in[Peer(e)] = @ \o out,
              !.sent[e] = @ \o out,
              !.end[e] = OnError(Logged([h EXCEPT !.wcalls = Append(@, Len(h.salt))],
                                        "write", good),
                                 "write", good)]
       /\ ShadowFrame

\* a peer that does not wait for a salt sends the next byte of its own
SendFirst(e) ==
    LET h == shadow.end[e]
        i == Len(shadow.sent[e]) + 1
    IN /\ shadow.pc = "on" /\ h.kind = "first" /\ h.pc = "send"
       /\ ~shadow.cl
       /\ shadow' = [shadow EXCEPT
              !.in[Peer(e)] = Append(@, h.salt[i]),
              !.sent[e] = Append(@, h.salt[i]),
              !.end[e].pc = IF i = SaltSize THEN "sent" ELSE "send"]
       /\ ShadowFrame

\* the stream is closed
CloseStream ==
    /\ shadow.pc = "on" /\ ~shadow.cl
    /\ shadow' = [shadow EXCEPT !.cl = TRUE]
    /\ ShadowFrame

NextShadow ==
    \/ \E e \in Tunnels : ReadSalt(e)
    \/ \E e \in Tunnels, step \in {"cipherR", "aeadR", "cipherW", "aeadW"},
          ok \in BOOLEAN : Build(e, step, ok)
    \/ \E e \in Tunnels, s \in Salts, ok \in BOOLEAN : RandSalt(e, s, ok)
    \/ \E e \in Tunnels, ok \in BOOLEAN, part \in 0..(SaltSize - 1) :
          WriteSalt(e, ok, part)
    \/ \E e \in Tunnels : SendFirst(e)
    \/ CloseStream

SpecShadow == InitShadow /\ [][NextShadow]_vars

----------------------------------------------------------------------------
(* The chunk specification: the peer of end Conc puts single chunks on the *)
(* wire, empty ones among them, as a peer that frames its data otherwise   *)
(* than Write does may; end Conc reads.                                    *)

MaxChunkCalls == 4

\* the payloads of the chunks: none, and the first two bytes of Source
ChunkDatas == {SubSeq(Source, 1, L) : L \in {0, 2}}

\* the peer t seals p as one chunk and puts it on the wire: what
\* aeadTunnel.write(p) does (src/aead.go:150-163)
SendChunk(t, p) ==
    LET r == write(tun[t], p, TRUE)
    IN /\ ~closed[Peer(t)]
       /\ calls' = calls + 1
       /\ tun' = [tun EXCEPT ![t] = r.c]
       /\ wire' = [wire EXCEPT ![Peer(t)] = @ \o r.raw]
       /\ written' = [written EXCEPT ![t] = @ \o p]
       /\ seals' = [seals EXCEPT ![t] = @ \o r.seals]
       /\ UNCHANGED <<closed, delivered, pending, opens, lastR, lastW, failed,
                      flips, conc, mask, shadow, ctr>>

NextChunk ==
    \/ \E plen \in ReadSizes : calls < MaxChunkCalls /\ Read(Conc, plen)
    \/ \E p \in ChunkDatas : calls < MaxChunkCalls /\ SendChunk(Peer(Conc), p)

SpecChunk == Init /\ [][NextChunk]_vars

----------------------------------------------------------------------------
(* The short-read specification: end 1 writes and end Conc reads a stream  *)
(* that may end anywhere, in the middle of a chunk too.                    *)

MaxShortCalls == 3

\* the stream towards t ends after the first k bytes in flight
Cut(t, k) ==
    /\ ~closed[t]
    /\ k \in 0..Len(wire[t])
    /\ closed' = [closed EXCEPT ![t] = TRUE]
    /\ wire' = [wire EXCEPT ![t] = SubSeq(@, 1, k)]
    /\ UNCHANGED <<tun, written, delivered, pending, opens, seals,
                   lastR, lastW, failed, flips, calls, conc, mask, shadow, ctr>>

NextShort ==
    \/ \E plen \in ReadSizes : calls < MaxShortCalls /\ Read(Conc, plen)
    \/ \E data \in Datas, accept \in Accepts :
           calls < MaxShortCalls /\ Write(Peer(Conc), data, accept)
    \/ \E k \in 0..Len(wire[Conc]) : Cut(Conc, k)

SpecShort == Init /\ [][NextShort]_vars

----------------------------------------------------------------------------
(* The counter specification: increment (src/aead.go:167-174) on counters  *)
(* of every width up to MaxCounterLen whose bytes are at the ends or in   *)
(* the middle of the byte range.                                           *)

MaxCounterLen == 2

EdgeBytes == {0, 1, 2, 127, 128, 253, 254, 255}
Counters == UNION {[1..n -> EdgeBytes] : n \in 1..MaxCounterLen}

InitCounter ==
    /\ InitTunnels
    /\ conc = [pc |-> "off"]
    /\ mask = [pc |-> "off"]
    /\ shadow = [pc |-> "off"]
    /\ \E b \in Counters : ctr = [pc |-> "raw", b |-> b, r |-> b]

\* increment(b)
Increment ==
    /\ ctr.pc = "raw"
    /\ ctr' = [ctr EXCEPT !.pc = "done", !.r = increment(ctr.b)]
    /\ UNCHANGED <<tun, wire, closed, written, delivered, pending, opens, seals,
                   lastR, lastW, failed, flips, calls, conc, mask, shadow>>

NextCounter == Increment

SpecCounter == InitCounter /\ [][NextCounter]_vars

----------------------------------------------------------------------------
(* Properties                                                              *)

IsPrefix(a, b) == Len(a) <= Len(b) /\ a = SubSeq(b, 1, Len(a))

\* a byte of a sealed section, altered in flight
Altered(ct) == \E i \in 1..Len(ct) : ct[i][1] # "p" /\ ct[i][6] = 1

\* the chunk a sealed section belongs to: Write seals the length of its j-th
\* chunk under nonce 2j and the payload under nonce 2j+1
ChunkOf(k, n) == <<k, NonceValue(n) \div 2>>
AlteredChunks == {ChunkOf(f[1], f[2]) : f \in flips}

NonceModulus == 256 ^ NonceSize

\* C1: with no byte altered in flight, what the Reads of a tunnel have
\* returned is, byte for byte and in order, the beginning of what the peer's
\* Writes put on the wire, and all of it once nothing is left in flight or in
\* the leftover cache.
RoundTrip ==
    \A t \in Readers :
        flips = {} =>
            /\ IsPrefix(delivered[t], Plain(written[Peer(t)]))
            /\ (wire[t] = <<>> /\ tun[t].cacheLen = 0
                   => delivered[t] = Plain(written[Peer(t)]))

\* C2: the leftover cache holds exactly the decrypted bytes the Reads still
\* owe the caller, in order and at most MaxPayload of them; a Read returns the
\* owed bytes first and reads the stream only after it has returned them all.
LeftoverCaching ==
    \A t \in Readers :
        /\ CacheOf(tun[t]) = pending[t]
        /\ tun[t].cacheLen <= MaxPayload
        /\ lastR.t = t =>
             /\ IsPrefix(SubSeq(lastR.owed, 1, Min(lastR.plen, Len(lastR.owed))),
                         lastR.out)
             /\ (lastR.read > 0 => Len(lastR.owed) < lastR.plen \/ lastR.owed = <<>>)

\* C3: when the concurrent Read call and Write call have both returned, Read
\* has delivered, and Write has put on the wire, what they do when run one
\* after the other.
ConcurrentAsSequential ==
    conc.pc = "on" /\ conc.rpc = "done" /\ conc.wpc = "done" =>
        /\ conc.rout = conc.expOut
        /\ conc.rerr = conc.expErr
        /\ wire[Peer(Conc)] = conc.expWire

\* C4: a Read made after a Read of the tunnel returned an authentication
\* error fails too, and decrypts no payload.
AuthFailureFatal ==
    lastR.t # 0 /\ lastR.broken => lastR.err # "nil" /\ lastR.dec = <<>>

\* the chunks the altered bytes of ct were sealed in
AlteredChunksOf(ct) ==
    {ChunkOf(ct[i][2], ct[i][3]) :
         i \in {j \in 1..Len(ct) : ct[j][1] # "p" /\ ct[j][6] = 1}}

\* the opens of t before the n-th that decrypted for the caller
Decrypted(t, n) ==
    {h \in 1..(n - 1) : opens[t][h].ok /\ opens[t][h].stage = "payload"}
Last(hs) == CHOOSE h \in hs : \A g \in hs : g <= h

\* C5: an open of a section a byte of which was altered in flight fails, and
\* nothing sealed in the chunk of the altered byte, length field or payload,
\* is returned by the Read that makes the failed open or decrypted for the
\* caller by a Read after it.
TamperDetected ==
    /\ \A t \in Readers : \A i \in 1..Len(opens[t]) :
         LET o == opens[t][i]
         IN /\ Altered(o.ct) => ~o.ok
            /\ o.ok /\ o.stage = "payload" =>
                  \A h \in 1..(i - 1) :
                      ChunkOf(tun[t].RAEAD, o.nonce)
                          \notin AlteredChunksOf(opens[t][h].ct)
    /\ lastR.t # 0 /\ lastR.err = "auth" /\ lastR.out # <<>> =>
         LET t == lastR.t
             n == Len(opens[t])
             hs == Decrypted(t, n)
         IN hs # {} =>
                ChunkOf(tun[t].RAEAD, opens[t][Last(hs)].nonce)
                    \notin AlteredChunksOf(opens[t][n].ct)

\* C5, of payloads: an open of a section a byte of which was altered in
\* flight fails; the Read that makes a failed open returns the authentication
\* error, decrypts nothing and returns at most what earlier Reads owed; and
\* the payload of a chunk with an altered section is never decrypted for the
\* caller.
PayloadTamperDetected ==
    /\ \A t \in Readers : \A i \in 1..Len(opens[t]) :
         LET o == opens[t][i]
         IN /\ Altered(o.ct) => ~o.ok
            /\ o.ok /\ o.stage = "payload" /\ NonceValue(o.nonce) % 2 = 1
                  => ChunkOf(tun[t].RAEAD, o.nonce) \notin AlteredChunks
    /\ lastR.t # 0 /\ lastR.err = "auth" =>
         /\ lastR.dec = <<>>
         /\ Len(lastR.out) = Len(lastR.owed)
         /\ tun[lastR.t].cacheLen = 0
    /\ lastR.t # 0 /\ lastR.err = "nil" /\ lastR.dec # <<>> =>
         /\ ~Altered(opens[lastR.t][Len(opens[lastR.t])].ct)
         /\ ~Altered(opens[lastR.t][Len(opens[lastR.t]) - 1].ct)

\* a Read has met an altered section: its open failed and nothing was decrypted
PayloadTamperDetectedWitness ==
    /\ lastR.t # 0 /\ lastR.err = "auth" /\ lastR.dec = <<>>
    /\ Altered(opens[lastR.t][Len(opens[lastR.t])].ct)

\* C6, as claimed: the read nonce counts the successful opens.
NonceCountsSuccessfulOpens ==
    \A t \in Tunnels :
        /\ NonceValue(tun[t].RNonce) =
               Cardinality({i \in 1..Len(opens[t]) : opens[t][i].ok}) % NonceModulus
        /\ NonceValue(tun[t].WNonce) = Len(seals[t]) % NonceModulus

\* C6, amended: each nonce counter is the number of opens, successful or
\* failed, or of seals made so far in its direction, modulo 2^(8*NonceSize).
NonceCountsCalls ==
    \A t \in Tunnels :
        /\ NonceValue(tun[t].RNonce) = Len(opens[t]) % NonceModulus
        /\ NonceValue(tun[t].WNonce) = Len(seals[t]) % NonceModulus

\* opens of a tunnel have succeeded and failed, and its peer has sealed
NonceCountsCallsWitness ==
    \E t \in Tunnels :
        /\ \E i \in 1..Len(opens[t]) : ~opens[t][i].ok
        /\ \E i \in 1..Len(opens[t]) : opens[t][i].ok
        /\ Len(seals[Peer(t)]) >= 2

\* C7: while fewer than 2^(8*NonceSize) calls were made in a direction, no two
\* seals and no two opens of a tunnel were made under the same nonce.
NonceUnique ==
    \A t \in Tunnels :
        /\ Len(seals[t]) < NonceModulus =>
             \A i, j \in 1..Len(seals[t]) :
                 i # j => seals[t][i].nonce # seals[t][j].nonce
        /\ Len(opens[t]) < NonceModulus =>
             \A i, j \in 1..Len(opens[t]) :
                 i # j => opens[t][i].nonce # opens[t][j].nonce

\* a failed Read was followed by another Read that opened, and a Write sealed
\* a length and a payload
NonceUniqueWitness ==
    /\ \E i, j \in 1..Len(opens[2]) : i < j /\ ~opens[2][i].ok
    /\ \E t \in Tunnels : Len(seals[t]) >= 2

\* the payload sizes of the frames of a Write, each 2+TagSize+size+TagSize long
FrameSizes(frames) == [i \in 1..Len(frames) |-> Len(frames[i]) - 2 - 2 * TagSize]
RECURSIVE Sum(_)
Sum(ns) == IF ns = <<>> THEN 0 ELSE Head(ns) + Sum(Tail(ns))
CeilDiv(a, b) == (a + b - 1) \div b

\* C8, as claimed: a Write the stream accepts puts ceil(L/MaxPayload) chunks on
\* the wire, one empty chunk when L = 0.
ChunkingWithEmptyChunk ==
    lastW.t # 0 /\ lastW.err = "nil" =>
        /\ Len(lastW.frames) =
               IF Len(lastW.data) = 0 THEN 1
               ELSE CeilDiv(Len(lastW.data), MaxPayload)
        /\ \A i \in 1..Len(lastW.frames) :
               FrameSizes(lastW.frames)[i] \in 0..MaxPayload

\* C8, amended: a Write the stream accepts puts ceil(L/MaxPayload) chunks on
\* the wire, none when L = 0, each of at most MaxPayload payload bytes, L
\* payload bytes in all.
Chunking ==
    lastW.t # 0 /\ lastW.err = "nil" =>
        /\ Len(lastW.frames) = CeilDiv(Len(lastW.data), MaxPayload)
        /\ \A i \in 1..Len(lastW.frames) :
               FrameSizes(lastW.frames)[i] \in 0..MaxPayload
        /\ Sum(FrameSizes(lastW.frames)) = Len(lastW.data)

\* after a Write of three pieces, an empty Write has returned without error
\* and put nothing on the wire
ChunkingWitness ==
    /\ lastW.t # 0 /\ lastW.err = "nil" /\ lastW.data = <<>>
    /\ lastW.frames = <<>>
    /\ Len(written[lastW.t]) = MaxLen
    /\ Len(seals[lastW.t]) = 6

\* the read direction of c replaced by another key and nonce
OtherRead(c) ==
    {[c EXCEPT !.RAEAD = k, !.RNonce = n] :
        k \in {c.RAEAD, 0}, n \in {c.RNonce, increment(c.RNonce)}}
\* the write direction of c replaced by another key and nonce
OtherWrite(c) ==
    {[c EXCEPT !.WAEAD = k, !.WNonce = n] :
        k \in {c.WAEAD, 0}, n \in {c.WNonce, increment(c.WNonce)}}

\* C9: a Write leaves the read nonce and read AEAD of its tunnel as they were
\* and puts the same bytes on the wire whatever they are; a Read leaves the
\* write nonce and write AEAD as they were and returns the same bytes and the
\* same error whatever they are.
IndependentDirections ==
    [][/\ lastW'.seq # lastW.seq =>
            LET t == lastW'.t
            IN /\ tun'[t].RNonce = tun[t].RNonce
               /\ tun'[t].RAEAD = tun[t].RAEAD
               /\ \A c \in OtherRead(tun[t]) :
                      WriteCall(c, lastW'.data, lastW'.accept).frames = lastW'.frames
       /\ lastR'.seq # lastR.seq =>
            LET t == lastR'.t
            IN /\ tun'[t].WNonce = tun[t].WNonce
               /\ tun'[t].WAEAD = tun[t].WAEAD
               /\ \A c \in OtherWrite(tun[t]) :
                      LET r == ReadCall(c, wire[t], closed[t], lastR'.plen)
                      IN r.out = lastR'.out /\ r.err = lastR'.err]_vars

\* a tunnel has written chunks and has read a chunk
IndependentDirectionsWitness ==
    /\ lastR.t = 2 /\ lastR.err = "nil" /\ lastR.dec # <<>>
    /\ Len(seals[2]) >= 2
    /\ NonceValue(tun[2].RNonce) # NonceValue(tun[2].WNonce)

\* C10: whatever the two decrypted length bytes are, the size Read uses is
\* their big-endian value cut to its low PayloadBits bits, so it is in
\* 0..MaxPayload and size+TagSize bytes fit in c.buffer.
LengthMasked ==
    mask.pc = "sized" =>
        /\ mask.size = (mask.b0 * 256 + mask.b1) % (2 ^ PayloadBits)
        /\ mask.size \in 0..MaxPayload
        /\ mask.need <= BufferLen

\* a length field with its top two bits set has been decoded
LengthMaskedWitness ==
    /\ mask.pc = "sized"
    /\ mask.b0 >= 192
    /\ mask.size < mask.b0 * 256 + mask.b1

\* the steps of Shadow that met no error, as the log of an end that returns a
\* tunnel shows them
AllSteps == [i \in 1..Len(ShadowSteps) |-> <<ShadowSteps[i], TRUE>>]

\* C11: Shadow returns a tunnel only when every step of the handshake met no
\* error, and then with no error; when the read of the peer salt is short, a
\* cipher or an AEAD cannot be built, the random source fails or the write
\* of the local salt fails, it returns that error and no tunnel.
HandshakeFailure ==
    shadow.pc = "on" =>
        \A e \in Tunnels :
            LET h == shadow.end[e]
            IN h.kind = "shadow" =>
                 /\ h.ret # <<>> =>
                      h.pc = "ret" /\ h.err = "nil" /\ h.log = AllSteps
                 /\ \A i \in 1..Len(h.log) :
                      ~h.log[i][2] =>
                          /\ h.pc = "ret" /\ h.ret = <<>>
                          /\ h.err = ShadowErr(h.log[i][1])
                 /\ h.pc = "ret" => (h.ret = <<>> <=> h.err # "nil")

\* the write of the local salt has failed and Shadow has returned the error
\* and no tunnel
HandshakeFailureWitness ==
    /\ shadow.pc = "on"
    /\ \E e \in Tunnels :
         LET h == shadow.end[e]
         IN /\ h.kind = "shadow" /\ h.pc = "ret"
            /\ h.log # <<>> /\ h.log[Len(h.log)] = <<"write", FALSE>>
            /\ h.ret = <<>> /\ h.err = "transport"

\* C12: a Write whose pieces the stream all accepts returns len(data) and no
\* error, after one write per piece; when the stream refuses piece i, Write
\* returns the error with the total size of pieces 0..i-1, has made one write
\* for each of pieces 0..i and none for a later piece.
WriteResult ==
    lastW.t # 0 =>
        LET L == Len(lastW.data)
            np == CeilDiv(L, MaxPayload)
            i == lastW.accept
        IN IF i >= np
           THEN /\ lastW.n = L /\ lastW.err = "nil"
                /\ lastW.tried = np /\ Len(lastW.frames) = np
           ELSE /\ lastW.n = i * MaxPayload /\ lastW.err = "transport"
                /\ lastW.tried = i + 1 /\ Len(lastW.frames) = i

\* the stream has accepted the first piece of a Write of three pieces and
\* refused the second
WriteResultWitness ==
    /\ lastW.t # 0 /\ lastW.err = "transport"
    /\ Len(lastW.data) = MaxLen /\ lastW.accept = 1
    /\ lastW.n = MaxPayload /\ lastW.tried = 2

\* the steps before the write of the local salt that met no error
BeforeWrite == [i \in 1..4 |-> <<ShadowSteps[i], TRUE>>]

\* C13: Shadow has put a byte on the stream only after it has read a full
\* peer salt, built the read AEAD from it and drawn the local salt, in that
\* order; it asks the stream for one write at most, of SaltSize bytes, and
\* puts at most SaltSize bytes on it; after a short or failed read of the
\* peer salt it writes nothing.
HandshakeOrdering ==
    shadow.pc = "on" =>
        \A e \in Tunnels :
            LET h == shadow.end[e]
            IN h.kind = "shadow" =>
                 /\ h.wcalls # <<>> \/ shadow.sent[e] # <<>> =>
                      /\ Len(h.log) > 4 /\ SubSeq(h.log, 1, 4) = BeforeWrite
                      /\ h.rkey = Subkey(SubSeq(shadow.sent[Peer(e)], 1, SaltSize))
                 /\ h.wcalls \in {<<>>, <<SaltSize>>}
                 /\ Len(shadow.sent[e]) <= SaltSize
                 /\ h.pc \in {"cipherW", "aeadW"} \/ h.ret # <<>> =>
                      Len(shadow.sent[e]) = SaltSize
                 /\ h.log # <<>> /\ ~h.log[1][2] =>
                      h.wcalls = <<>> /\ shadow.sent[e] = <<>>

\* an end has read the peer salt, written its whole salt and returned a tunnel
HandshakeOrderingWitness ==
    /\ shadow.pc = "on"
    /\ \E e \in Tunnels :
         LET h == shadow.end[e]
         IN /\ h.kind = "shadow" /\ h.ret # <<>>
            /\ Len(shadow.sent[e]) = SaltSize

\* the nonce counter n after k increments
RECURSIVE IncN(_, _)
IncN(n, k) == IF k = 0 THEN n ELSE IncN(increment(n), k - 1)

\* piece j of the data of a Write, j = 0, 1, ...
PieceOf(data, j) ==
    SubSeq(data, j * MaxPayload + 1, Min((j + 1) * MaxPayload, Len(data)))

\* C14: a Write that starts with the write nonce at w seals, for its j-th
\* piece, the two bytes of the big-endian length under w+2j and then the
\* payload under w+2j+1, leaves the write nonce two further for every piece
\* it has sealed, and each of its stream writes is the sealed length followed
\* by the sealed payload of one piece; the stream writes of a Write, and of
\* successive Writes, are on the wire in the order of the data.
FramingOrder ==
    [][lastW'.seq # lastW.seq =>
         LET t == lastW'.t
             k == tun[t].WAEAD
             w == tun[t].WNonce
             d == lastW'.data
             len(j) == <<Len(PieceOf(d, j)) \div 256, Len(PieceOf(d, j)) % 256>>
         IN /\ \A j \in 0..(Len(lastW'.frames) - 1) :
                   lastW'.frames[j + 1] =
                       AEADSeal(k, IncN(w, 2 * j), len(j))
                           \o AEADSeal(k, IncN(w, 2 * j + 1), PieceOf(d, j))
            /\ seals'[t] = seals[t] \o
                   [x \in 1..(2 * lastW'.tried) |->
                       IF x % 2 = 1
                       THEN [nonce |-> IncN(w, x - 1), pt |-> len((x - 1) \div 2)]
                       ELSE [nonce |-> IncN(w, x - 1), pt |-> PieceOf(d, (x - 2) \div 2)]]
            /\ tun'[t].WNonce = IncN(w, 2 * lastW'.tried)
            /\ wire'[Peer(t)] = wire[Peer(t)] \o Concat(lastW'.frames)]_vars

\* a second Write, of two pieces or more, has followed a Write that sealed
FramingOrderWitness ==
    /\ lastW.t # 0 /\ lastW.seq = 2 /\ lastW.err = "nil"
    /\ Len(lastW.frames) >= 2
    /\ Len(seals[lastW.t]) > 2 * Len(lastW.frames)

\* C15: a Read makes each of its opens under the read nonce as it then is and
\* leaves the counter one further after every open, failed opens included: a
\* Read that decrypts a chunk leaves it two further, a Read whose open fails
\* leaves it one past the nonce of the failed open, and a Read that meets a
\* short read of the length field makes no open and leaves it as it was; a
\* Write leaves the write nonce one further for every seal.
IncrementRegardless ==
    [][/\ lastR'.seq # lastR.seq =>
            LET t == lastR'.t
                k == Len(opens'[t]) - Len(opens[t])
            IN /\ tun'[t].RNonce = IncN(tun[t].RNonce, k)
               /\ \A j \in 1..k :
                      opens'[t][Len(opens[t]) + j].nonce = IncN(tun[t].RNonce, j - 1)
               /\ lastR'.dec # <<>> => k = 2
               /\ lastR'.err = "auth" =>
                      /\ k \in {1, 2} /\ ~opens'[t][Len(opens'[t])].ok
                      /\ tun'[t].RNonce = increment(opens'[t][Len(opens'[t])].nonce)
               /\ lastR'.err = "transport" /\ lastR'.read < 2 + TagSize =>
                      k = 0 /\ tun'[t].RNonce = tun[t].RNonce
       /\ lastW'.seq # lastW.seq =>
            LET t == lastW'.t
                k == Len(seals'[t]) - Len(seals[t])
            IN /\ tun'[t].WNonce = IncN(tun[t].WNonce, k)
               /\ k = 2 * lastW'.tried
               /\ \A j \in 1..k :
                      seals'[t][Len(seals[t]) + j].nonce = IncN(tun[t].WNonce, j - 1)]_vars

\* after an open that failed and an open that succeeded, a Read has met a
\* short read of the length field
IncrementRegardlessWitness ==
    /\ lastR.t # 0 /\ lastR.err = "transport" /\ lastR.read < 2 + TagSize
    /\ \E i \in 1..Len(opens[lastR.t]) : ~opens[lastR.t][i].ok
    /\ \E i \in 1..Len(opens[lastR.t]) : opens[lastR.t][i].ok
    /\ NonceValue(tun[lastR.t].RNonce) = Len(opens[lastR.t])

\* C16: a Read that opens a chunk whose authenticated length is zero reads
\* the length and a tag from the stream, opens both, leaves the read nonce
\* two further, returns no error and no byte but those earlier Reads owed,
\* and leaves the leftover cache empty; and what the Reads return, before and
\* after it, is the beginning of what the peer sent, all of it once nothing
\* is in flight or owed.
EmptyChunk ==
    [][lastR'.seq # lastR.seq =>
         LET t == lastR'.t
             n == Len(opens'[t])
             first == opens'[t][Len(opens[t]) + 1]
         IN /\ /\ n > Len(opens[t]) /\ first.ok
               /\ DecodeSize(Decrypt(first.ct[1]), Decrypt(first.ct[2])) = 0
               => /\ lastR'.err = "nil" /\ lastR'.dec = <<<<>>>>
                  /\ lastR'.out = pending[t]
                  /\ lastR'.read = 2 + TagSize + TagSize
                  /\ n = Len(opens[t]) + 2
                  /\ opens'[t][n].ok
                  /\ Len(opens'[t][n].ct) = TagSize
                  /\ tun'[t].RNonce = increment(increment(tun[t].RNonce))
                  /\ tun'[t].cacheLen = 0 /\ pending'[t] = <<>>
            /\ IsPrefix(delivered'[t], Plain(written'[Peer(t)]))
            /\ wire'[t] = <<>> /\ tun'[t].cacheLen = 0 =>
                  delivered'[t] = Plain(written'[Peer(t)])]_vars

\* after a Read that opened an empty chunk, a Read has returned the bytes of
\* the chunk that followed it
EmptyChunkWitness ==
    /\ lastR.t # 0 /\ lastR.err = "nil" /\ lastR.out # <<>>
    /\ lastR.dec # <<>> /\ lastR.out = lastR.dec[1]
    /\ \E i \in 1..(Len(opens[lastR.t]) - 2) :
         /\ opens[lastR.t][i].ok /\ opens[lastR.t][i].stage = "payload"
         /\ Len(opens[lastR.t][i].ct) = TagSize

\* C17: a Read that goes to a stream that ends before the 2+TagSize bytes of
\* a sealed length, or, the length opened, before the size+TagSize bytes of
\* the sealed payload, returns the transport error and no authentication
\* error, makes no open of the incomplete bytes, and returns no byte but
\* those earlier Reads owed.
ShortRead ==
    [][lastR'.seq # lastR.seq =>
         LET t == lastR'.t
             n == Len(opens'[t])
             k == n - Len(opens[t])
             got == Len(wire[t])
             toStream == tun[t].cacheLen = 0 \/ tun[t].cacheLen < lastR'.plen
             size == DecodeSize(Decrypt(wire[t][1]), Decrypt(wire[t][2]))
         IN /\ toStream /\ closed[t] /\ got < 2 + TagSize =>
                  /\ lastR'.err = "transport" /\ k = 0
                  /\ lastR'.dec = <<>> /\ lastR'.out = pending[t]
            /\ /\ toStream /\ closed[t] /\ got >= 2 + TagSize
               /\ got < 2 + TagSize + size + TagSize
               => /\ lastR'.err = "transport" /\ k = 1
                  /\ opens'[t][n].stage = "length" /\ opens'[t][n].ok
                  /\ Len(opens'[t][n].ct) = 2 + TagSize
                  /\ lastR'.dec = <<>> /\ lastR'.out = pending[t]
            /\ lastR'.err # "auth"]_vars

\* a Read has opened the length of a chunk and met the end of the stream in
\* the sealed payload
ShortReadWitness ==
    /\ lastR.t # 0 /\ lastR.err = "transport"
    /\ lastR.read > 2 + TagSize
    /\ opens[lastR.t] # <<>>
    /\ opens[lastR.t][Len(opens[lastR.t])].stage = "length"

\* C18: increment leaves a counter of n bytes, read as a little-endian
\* number v, at (v + 1) mod 2^(8n), a counter of n bytes still: the all-0xFF
\* counter becomes all zero.
CounterArithmetic ==
    ctr.pc = "done" =>
        /\ Len(ctr.r) = Len(ctr.b)
        /\ \A i \in 1..Len(ctr.r) : ctr.r[i] \in 0..255
        /\ NonceValue(ctr.r) = (NonceValue(ctr.b) + 1) % (256 ^ Len(ctr.b))
        /\ (\A i \in 1..Len(ctr.b) : ctr.b[i] = 255) =>
               \A i \in 1..Len(ctr.r) : ctr.r[i] = 0

\* a counter of two bytes or more, all 0xFF, has been incremented
CounterArithmeticWitness ==
    /\ ctr.pc = "done" /\ Len(ctr.b) >= 2
    /\ \A i \in 1..Len(ctr.b) : ctr.b[i] = 255
    /\ NonceValue(ctr.r) = 0

\* C19: a Write on a tunnel leaves the leftover cache of the tunnel as it
\* was, and the Read of the tunnel that follows the Write returns first the
\* bytes the Reads before the Write left owed, as they were decrypted.
WriteLeavesLeftover ==
    [][/\ lastW'.seq # lastW.seq =>
              CacheOf(tun'[lastW'.t]) = CacheOf(tun[lastW'.t])
       /\ lastR'.seq # lastR.seq /\ lastW.seq = calls /\ lastW.t = lastR'.t =>
              LET owed == pending[lastR'.t]
              IN IsPrefix(SubSeq(owed, 1, Min(lastR'.plen, Len(owed))),
                          lastR'.out)]_vars

\* C20: when both ends of the stream run Shadow, each blocks in the read of
\* the peer salt while the stream is open, neither writes a byte of its own
\* salt and neither returns a tunnel; an end gets past the read of the peer
\* salt, and so returns a tunnel, only when its peer is one that sends first
\* and has sent its SaltSize bytes.
PeerSendsFirst ==
    shadow.pc = "on" =>
        /\ (\A e \in Tunnels : shadow.end[e].kind = "shadow") =>
               \A e \in Tunnels :
                   LET h == shadow.end[e]
                   IN /\ shadow.sent[e] = <<>> /\ h.wcalls = <<>>
                      /\ h.ret = <<>>
                      /\ ~shadow.cl =>
                             /\ h.pc = "read"
                             /\ SaltRead(shadow.in[e], shadow.cl).st = "block"
                      /\ h.pc # "read" =>
                             h.pc = "ret" /\ h.err = ShadowErr("read")
        /\ \A e \in Tunnels :
               LET h == shadow.end[e]
               IN h.kind = "shadow" /\ (h.ret # <<>> \/ h.pc \notin {"read", "ret"}) =>
                      /\ shadow.end[Peer(e)].kind = "first"
                      /\ Len(shadow.sent[Peer(e)]) = SaltSize

\* both ends have run Shadow on a stream that was closed in the end: both
\* have returned the error of the read and none has written a byte
PeerSendsFirstWitness ==
    /\ shadow.pc = "on" /\ shadow.cl
    /\ \A e \in Tunnels :
         /\ shadow.end[e].kind = "shadow" /\ shadow.end[e].pc = "ret"
         /\ shadow.end[e].err = "transport" /\ shadow.end[e].ret = <<>>
         /\ shadow.sent[e] = <<>>

====
